---- MODULE Spec2Model ----
(***************************************************************************)
(* go_bank: the account table behind PostgresStorage (storage.go) and the  *)
(* request handlers of APIServer (api.go).  Every database statement is    *)
(* one step, so that concurrent requests interleave between statements     *)
(* exactly as they do on the shared table.  Rows are locked as PostgreSQL  *)
(* locks them (SELECT ... FOR UPDATE, UPDATE and DELETE take the row lock  *)
(* and wait while another transaction holds it); a transaction's writes    *)
(* become visible when it commits.  Any statement may fail (connection     *)
(* loss, lock timeout, deadlock detection), which the code sees as a       *)
(* non-nil error.                                                          *)
(***************************************************************************)
EXTENDS Integers, FiniteSets, Sequences, TLC

\* The width of the mantissa of a balance.  Balances are float64 in the
\* code (53 bits); the model keeps the arithmetic and narrows the mantissa.
MantBits == 2

\* Balances further than this from zero are not explored.
MaxBalance == 8

\* The goroutines serving requests, one request each at a time.
Clients == {1, 2}

\* The primary keys of the rows of the account table (id SERIAL).
Ids == {1, 2}

\* The account number of each row (number BIGINT UNIQUE).
NumberOf(id) == id * 100

\* Account numbers named by requests; 300 is no account's number.
Numbers == {100, 200, 300}

\* Amounts named by transfer requests.
Amounts == {0, 1, 2}

\* Balances the accounts start with.
InitBalances == {0, 1, 4}

\* Balances and numbers named by balance-update requests.
UpdateBalances == {-1, 0}
UpdateNumbers == {0, 100, 200}

NoRow == [number |-> 0, balance |-> 0, present |-> FALSE]

NoRequest ==
    [kind |-> "none", via |-> "none", fromAccountNo |-> 0, toAccountNo |-> 0,
     amount |-> 0, id |-> 0, number |-> 0, balance |-> 0]

VARIABLES
    table,        \* the committed rows of the account table, by id
    lock,         \* the client whose transaction holds each row's lock, or 0
    pc,           \* where each client's request stands
    req,          \* the request each client is serving
    err,          \* TransferMoney's local variable err
    ret,          \* the error the Store call returned ("nil" for none)
    retId,        \* the id the Store call returned (0 for none)
    resp,         \* the status the handler wrote (0: none)
    fromBalance,  \* TransferMoney's local fromBalance
    toBalance,    \* TransferMoney's local toBalance
    writes,       \* the uncommitted balance writes of each client's transaction
    txEnd         \* how the client's last transaction was ended

vars == <<table, lock, pc, req, err, ret, retId, resp, fromBalance, toBalance, writes, txEnd>>

-----------------------------------------------------------------------------
(* float64 arithmetic, with a MantBits-bit mantissa *)

Abs(x) == IF x < 0 THEN -x ELSE x

RECURSIVE Ulp(_)
\* The distance between neighbouring representable values at magnitude a.
Ulp(a) == IF a < 2 ^ MantBits THEN 1 ELSE 2 * Ulp(a \div 2)

\* Round to nearest, ties to the even mantissa.
RoundMag(a) ==
    LET u  == Ulp(a)
        lo == a - (a % u)
        hi == lo + u
    IN  IF a = lo THEN a
        ELSE IF a - lo < hi - a THEN lo
        ELSE IF a - lo > hi - a THEN hi
        ELSE IF (lo \div u) % 2 = 0 THEN lo ELSE hi

Round(x) == IF x < 0 THEN -RoundMag(-x) ELSE RoundMag(x)

FloatSub(x, y) == Round(x - y)
FloatAdd(x, y) == Round(x + y)

Representable(x) == Round(x) = x

InRange(x) == Abs(x) <= MaxBalance

-----------------------------------------------------------------------------
(* the account table *)

RowExists(id) == id \in Ids /\ table[id].present

\* The id of the row WHERE number = n, or 0 when no row matches.
RowByNumber(n) ==
    IF \E id \in Ids : table[id].present /\ table[id].number = n
    THEN CHOOSE id \in Ids : table[id].present /\ table[id].number = n
    ELSE 0

\* A statement that needs a row's lock waits while another transaction holds it.
LockedByOther(c, id) == lock[id] # 0 /\ lock[id] # c

\* A plain SELECT, which takes no row lock.
SelectWithoutLock(c, id) == lock

\* SELECT ... FOR UPDATE leaves the row locked by the reading transaction.
SelectForUpdate(c, id) == [lock EXCEPT ![id] = c]

\* The locks left when c's transaction ends.
ReleaseLocks(c) == [id \in Ids |-> IF lock[id] = c THEN 0 ELSE lock[id]]

\* The table after c's transaction commits its writes.
ApplyWrites(c) ==
    [id \in Ids |->
        IF id \in DOMAIN writes[c]
        THEN [table[id] EXCEPT !.balance = writes[c][id]]
        ELSE table[id]]

NoWrites == [id \in {} |-> 0]

PutWrite(w, id, b) == [i \in (DOMAIN w) \cup {id} |-> IF i = id THEN b ELSE w[i]]

-----------------------------------------------------------------------------
(* handleTransfer and PostgresStorage.TransferMoney *)

Idle(c) == pc[c] = "idle"

TransferRequest(via, from, to, amount) ==
    [NoRequest EXCEPT !.kind = "transfer", !.via = via, !.fromAccountNo = from,
                      !.toAccountNo = to, !.amount = amount]

\* The status handleTransfer writes for what TransferMoney returned.
TransferStatus(e) == IF e # "nil" THEN 500 ELSE 200

\* What the caller is left with when the Store call returns e.
StatusFor(c, e) == IF req[c].via = "http" THEN TransferStatus(e) ELSE 0

\* The comparison the wrong way round.
InsufficientFundsInverted(balance, amount) == balance > amount

\* if fromBalance < amount
InsufficientFunds(balance, amount) == balance < amount

\* A deferred function that commits whatever err holds.
DeferredAlwaysCommits(e) == TRUE

\* The deferred function commits when the local err is nil.
DeferredCommits(e) == e = "nil"

\* The request ends with the Store's result (id, e) answered as status.
Answer(c, id, e, status) ==
    /\ pc' = [pc EXCEPT ![c] = "done"]
    /\ ret' = [ret EXCEPT ![c] = e]
    /\ retId' = [retId EXCEPT ![c] = id]
    /\ resp' = [resp EXCEPT ![c] = status]

\* The request goes on to its next statement.
Goto(c, l) ==
    /\ pc' = [pc EXCEPT ![c] = l]
    /\ ret' = [ret EXCEPT ![c] = "nil"]
    /\ retId' = [retId EXCEPT ![c] = 0]
    /\ resp' = [resp EXCEPT ![c] = 0]

\* A new request starts with fresh locals and touches no row by itself.
Fresh(c) ==
    /\ err' = [err EXCEPT ![c] = "nil"]
    /\ fromBalance' = [fromBalance EXCEPT ![c] = 0]
    /\ toBalance' = [toBalance EXCEPT ![c] = 0]
    /\ txEnd' = [txEnd EXCEPT ![c] = "none"]
    /\ UNCHANGED <<table, lock, writes>>

LocalsUnchanged == UNCHANGED <<err, fromBalance, toBalance, writes, txEnd>>

\* tx, err := s.db.Begin(): the transaction starts, or the call returns the
\* error at once.
Begin(c, via) ==
    \/ Goto(c, "lockFrom")
    \/ Answer(c, 0, "db", IF via = "http" THEN TransferStatus("db") ELSE 0)

\* POST /transfer: the handler validates the request and calls the Store,
\* which begins its transaction.
handleTransfer(c, from, to, amount) ==
    /\ Idle(c)
    /\ req' = [req EXCEPT ![c] = TransferRequest("http", from, to, amount)]
    /\ Fresh(c)
    /\ IF from = to \/ amount <= 0
       THEN Answer(c, 0, "nil", 400)
       ELSE Begin(c, "http")

\* A caller of the Storage interface other than the handler.
TransferMoney(c, from, to, amount) ==
    /\ Idle(c)
    /\ req' = [req EXCEPT ![c] = TransferRequest("store", from, to, amount)]
    /\ Fresh(c)
    /\ Begin(c, "store")

\* SELECT balance FROM account WHERE number = fromAccountNo FOR UPDATE
TxLockFrom(c) ==
    LET id == RowByNumber(req[c].fromAccountNo) IN
    /\ pc[c] = "lockFrom"
    /\ \/ /\ id # 0
          /\ ~LockedByOther(c, id)
          /\ InRange(FloatSub(table[id].balance, req[c].amount))
          /\ lock' = SelectForUpdate(c, id)
          /\ fromBalance' = [fromBalance EXCEPT ![c] = table[id].balance]
          /\ err' = [err EXCEPT ![c] = "nil"]
          /\ IF InsufficientFunds(table[id].balance, req[c].amount)
             THEN /\ ret' = [ret EXCEPT ![c] = "insufficient funds"]
                  /\ pc' = [pc EXCEPT ![c] = "defer"]
             ELSE /\ ret' = ret
                  /\ pc' = [pc EXCEPT ![c] = "lockTo"]
       \/ /\ id = 0
          /\ err' = [err EXCEPT ![c] = "ErrNoRows"]
          /\ ret' = [ret EXCEPT ![c] = "ErrNoRows"]
          /\ pc' = [pc EXCEPT ![c] = "defer"]
          /\ UNCHANGED <<lock, fromBalance>>
       \/ /\ err' = [err EXCEPT ![c] = "db"]
          /\ ret' = [ret EXCEPT ![c] = "db"]
          /\ pc' = [pc EXCEPT ![c] = "defer"]
          /\ UNCHANGED <<lock, fromBalance>>
    /\ UNCHANGED <<table, req, retId, resp, toBalance, writes, txEnd>>

\* SELECT balance FROM account WHERE number = toAccountNo FOR UPDATE
TxLockTo(c) ==
    LET id == RowByNumber(req[c].toAccountNo) IN
    /\ pc[c] = "lockTo"
    /\ \/ /\ id # 0
          /\ ~LockedByOther(c, id)
          /\ InRange(FloatAdd(table[id].balance, req[c].amount))
          /\ lock' = SelectForUpdate(c, id)
          /\ toBalance' = [toBalance EXCEPT ![c] = table[id].balance]
          /\ err' = [err EXCEPT ![c] = "nil"]
          /\ ret' = ret
          /\ pc' = [pc EXCEPT ![c] = "writeFrom"]
       \/ /\ id = 0
          /\ err' = [err EXCEPT ![c] = "ErrNoRows"]
          /\ ret' = [ret EXCEPT ![c] = "ErrNoRows"]
          /\ pc' = [pc EXCEPT ![c] = "defer"]
          /\ UNCHANGED <<lock, toBalance>>
       \/ /\ err' = [err EXCEPT ![c] = "db"]
          /\ ret' = [ret EXCEPT ![c] = "db"]
          /\ pc' = [pc EXCEPT ![c] = "defer"]
          /\ UNCHANGED <<lock, toBalance>>
    /\ UNCHANGED <<table, req, retId, resp, fromBalance, writes, txEnd>>

\* newFromBalance := fromBalance - amount; UPDATE account SET balance = newFromBalance
TxWriteFrom(c) ==
    LET id == RowByNumber(req[c].fromAccountNo) IN
    /\ pc[c] = "writeFrom"
    /\ \/ /\ ~LockedByOther(c, id)
          /\ lock' = [lock EXCEPT ![id] = c]
          /\ writes' = [writes EXCEPT ![c] =
                 PutWrite(@, id, FloatSub(fromBalance[c], req[c].amount))]
          /\ err' = [err EXCEPT ![c] = "nil"]
          /\ ret' = ret
          /\ pc' = [pc EXCEPT ![c] = "writeTo"]
       \/ /\ err' = [err EXCEPT ![c] = "db"]
          /\ ret' = [ret EXCEPT ![c] = "db"]
          /\ pc' = [pc EXCEPT ![c] = "defer"]
          /\ UNCHANGED <<lock, writes>>
    /\ UNCHANGED <<table, req, retId, resp, fromBalance, toBalance, txEnd>>

\* newToBalance := toBalance + amount; UPDATE account SET balance = newToBalance
TxWriteTo(c) ==
    LET id == RowByNumber(req[c].toAccountNo) IN
    /\ pc[c] = "writeTo"
    /\ \/ /\ ~LockedByOther(c, id)
          /\ lock' = [lock EXCEPT ![id] = c]
          /\ writes' = [writes EXCEPT ![c] =
                 PutWrite(@, id, FloatAdd(toBalance[c], req[c].amount))]
          /\ err' = [err EXCEPT ![c] = "nil"]
          /\ ret' = ret
          /\ pc' = [pc EXCEPT ![c] = "defer"]
       \/ /\ err' = [err EXCEPT ![c] = "db"]
          /\ ret' = [ret EXCEPT ![c] = "db"]
          /\ pc' = [pc EXCEPT ![c] = "defer"]
          /\ UNCHANGED <<lock, writes>>
    /\ UNCHANGED <<table, req, retId, resp, fromBalance, toBalance, txEnd>>

\* The deferred function runs as TransferMoney returns: tx.Rollback() when the
\* local err is non-nil, tx.Commit() otherwise (its result is not looked at);
\* the handler then answers from the returned error.
TxDeferred(c) ==
    /\ pc[c] = "defer"
    /\ \/ /\ ~DeferredCommits(err[c])
          /\ txEnd' = [txEnd EXCEPT ![c] = "rollback"]
          /\ table' = table
       \/ /\ DeferredCommits(err[c])
          /\ txEnd' = [txEnd EXCEPT ![c] = "commit"]
          /\ table' = ApplyWrites(c)
       \/ /\ DeferredCommits(err[c])
          /\ txEnd' = [txEnd EXCEPT ![c] = "commit failed"]
          /\ table' = table
    /\ lock' = ReleaseLocks(c)
    /\ writes' = [writes EXCEPT ![c] = NoWrites]
    /\ resp' = [resp EXCEPT ![c] = StatusFor(c, ret[c])]
    /\ pc' = [pc EXCEPT ![c] = "done"]
    /\ err' = [err EXCEPT ![c] = "nil"]
    /\ fromBalance' = [fromBalance EXCEPT ![c] = 0]
    /\ toBalance' = [toBalance EXCEPT ![c] = 0]
    /\ UNCHANGED <<req, ret, retId>>

-----------------------------------------------------------------------------
(* handleDeleteAccount and PostgresStorage.DeleteAccount *)

DeleteRequest(id) == [NoRequest EXCEPT !.kind = "delete", !.via = "http", !.id = id]

\* The status handleDeleteAccount writes for what DeleteAccount returned.
DeleteStatus(deletedID, e) ==
    IF e # "nil" THEN 500 ELSE IF deletedID = 0 THEN 404 ELSE 200

\* DeleteAccount without its look at res.Next().
DeleteAssumesRow(id) == TRUE

\* res.Next() of SELECT id FROM account WHERE id = $1
DeleteFindsRow(id) == RowExists(id)

\* DELETE /account/{id}: the handler calls DeleteAccount, whose first
\* statement looks the row up.
handleDeleteAccount(c, id) ==
    /\ Idle(c)
    /\ req' = [req EXCEPT ![c] = DeleteRequest(id)]
    /\ \/ IF DeleteFindsRow(id)
          THEN Goto(c, "delExec")
          ELSE Answer(c, 0, "nil", DeleteStatus(0, "nil"))
       \/ Answer(c, 0, "db", DeleteStatus(0, "db"))
    /\ Fresh(c)

\* DELETE FROM account WHERE id = $1
DeleteExec(c) ==
    LET id == req[c].id IN
    /\ pc[c] = "delExec"
    /\ \/ /\ RowExists(id) => ~LockedByOther(c, id)
          /\ table' = [table EXCEPT ![id] = NoRow]
          /\ Answer(c, id, "nil", DeleteStatus(id, "nil"))
       \/ /\ table' = table
          /\ Answer(c, 0, "db", DeleteStatus(0, "db"))
    /\ UNCHANGED <<lock, req>>
    /\ LocalsUnchanged

-----------------------------------------------------------------------------
(* handleUpdateAccountBalance and PostgresStorage.UpdateAccountBalance *)

UpdateRequest(id, number, balance) ==
    [NoRequest EXCEPT !.kind = "update", !.via = "http", !.id = id,
                      !.number = number, !.balance = balance]

\* The status handleUpdateAccountBalance writes for what UpdateAccountBalance
\* returned.
UpdateStatus(updatedID, e) ==
    IF e # "nil" THEN 500 ELSE IF updatedID = 0 THEN 404 ELSE 200

\* A handler without its check of the balance.
AnyBalanceValid(balance) == TRUE

\* The handler's checks of the decoded payload.
ValidBalance(balance) == ~(balance < 0)
ValidNumber(number) == ~(number <= 0)

\* The rows UPDATE ... WHERE id = $3 AND number = $4 matches.
UpdateMatches(id, number) == RowExists(id) /\ table[id].number = number

\* PUT /account/{id}: the handler validates the payload and looks the
\* account up (GetAccountByID) before it calls the Store.
handleUpdateAccountBalance(c, id, number, balance) ==
    /\ Idle(c)
    /\ req' = [req EXCEPT ![c] = UpdateRequest(id, number, balance)]
    /\ IF ~ValidBalance(balance) \/ ~ValidNumber(number)
       THEN Answer(c, 0, "nil", 400)
       ELSE \/ IF RowExists(id)
               THEN Goto(c, "updQuery")
               ELSE Answer(c, 0, "nil", 404)
            \/ Answer(c, 0, "db", 500)
    /\ Fresh(c)

\* SELECT id FROM account WHERE id = $1 (the rows are not looked at)
UpdateQuery(c) ==
    /\ pc[c] = "updQuery"
    /\ \/ Goto(c, "updExec")
       \/ Answer(c, 0, "db", UpdateStatus(0, "db"))
    /\ UNCHANGED <<table, lock, req>>
    /\ LocalsUnchanged

\* UPDATE account SET balance = $1, updated_at = $2 WHERE id = $3 AND number = $4
UpdateExec(c) ==
    LET id == req[c].id IN
    /\ pc[c] = "updExec"
    /\ \/ /\ UpdateMatches(id, req[c].number)
          /\ ~LockedByOther(c, id)
          /\ table' = [table EXCEPT ![id].balance = req[c].balance]
          /\ Answer(c, id, "nil", UpdateStatus(id, "nil"))
       \/ /\ ~UpdateMatches(id, req[c].number)
          /\ table' = table
          /\ Answer(c, 0, "no rows updated", UpdateStatus(0, "no rows updated"))
       \/ /\ table' = table
          /\ Answer(c, 0, "db", UpdateStatus(0, "db"))
    /\ UNCHANGED <<lock, req>>
    /\ LocalsUnchanged

-----------------------------------------------------------------------------

\* The response is written and the goroutine that served the request ends.
Finish(c) ==
    /\ pc[c] = "done"
    /\ pc' = [pc EXCEPT ![c] = "idle"]
    /\ req' = [req EXCEPT ![c] = NoRequest]
    /\ ret' = [ret EXCEPT ![c] = "nil"]
    /\ retId' = [retId EXCEPT ![c] = 0]
    /\ resp' = [resp EXCEPT ![c] = 0]
    /\ txEnd' = [txEnd EXCEPT ![c] = "none"]
    /\ UNCHANGED <<table, lock, err, fromBalance, toBalance, writes>>

-----------------------------------------------------------------------------

Init ==
    /\ \E b \in [Ids -> InitBalances] :
           table = [id \in Ids |->
                       [number |-> NumberOf(id), balance |-> b[id], present |-> TRUE]]
    /\ lock = [id \in Ids |-> 0]
    /\ pc = [c \in Clients |-> "idle"]
    /\ req = [c \in Clients |-> NoRequest]
    /\ err = [c \in Clients |-> "nil"]
    /\ ret = [c \in Clients |-> "nil"]
    /\ retId = [c \in Clients |-> 0]
    /\ resp = [c \in Clients |-> 0]
    /\ fromBalance = [c \in Clients |-> 0]
    /\ toBalance = [c \in Clients |-> 0]
    /\ writes = [c \in Clients |-> NoWrites]
    /\ txEnd = [c \in Clients |-> "none"]

TxStep(c) ==
    \/ TxLockFrom(c)
    \/ TxLockTo(c)
    \/ TxWriteFrom(c)
    \/ TxWriteTo(c)
    \/ TxDeferred(c)

NextTransfer ==
    \E c \in Clients :
        \/ \E from \in Numbers, to \in Numbers, amount \in Amounts :
               handleTransfer(c, from, to, amount)
        \/ TxStep(c)
        \/ Finish(c)

SpecTransfer == Init /\ [][NextTransfer]_vars

\* Callers of the Storage interface other than the handler: account numbers
\* and amounts they name.
StoreNumbers == {100, 200}
StoreAmounts == {-1, 0, 1}

NextStore ==
    \E c \in Clients :
        \/ \E from \in StoreNumbers, to \in StoreNumbers, amount \in StoreAmounts :
               TransferMoney(c, from, to, amount)
        \/ TxStep(c)
        \/ Finish(c)

SpecStore == Init /\ [][NextStore]_vars

\* Amounts named by transfer requests that run beside deletes and updates.
MixedAmounts == {1}

Next ==
    \E c \in Clients :
        \/ \E from \in Numbers, to \in Numbers, amount \in MixedAmounts :
               handleTransfer(c, from, to, amount)
        \/ TxStep(c)
        \/ \E id \in Ids : handleDeleteAccount(c, id)
        \/ DeleteExec(c)
        \/ \E id \in Ids, number \in UpdateNumbers, balance \in UpdateBalances :
               handleUpdateAccountBalance(c, id, number, balance)
        \/ UpdateQuery(c)
        \/ UpdateExec(c)
        \/ Finish(c)

Spec == Init /\ [][Next]_vars

-----------------------------------------------------------------------------
(* Properties *)

FromRow(c) == RowByNumber(req[c].fromAccountNo)
ToRow(c) == RowByNumber(req[c].toAccountNo)

RECURSIVE SumBalances(_)
SumBalances(S) ==
    IF S = {} THEN 0
    ELSE LET id == CHOOSE i \in S : TRUE
         IN  table[id].balance + SumBalances(S \ {id})

\* The sum of the balances of all accounts, as a reader of the table sees it.
TotalBalance == SumBalances(Ids)

\* c's transfer waits for the lock of row id, which another transfer holds.
Waiting(c, id) ==
    /\ id # 0
    /\ \/ pc[c] = "lockFrom" /\ id = FromRow(c)
       \/ pc[c] = "lockTo" /\ id = ToRow(c)
    /\ LockedByOther(c, id)

\* C1: transfers conserve money: no step of a transfer between two distinct
\* accounts with a positive amount changes the sum of all committed balances.
C1_Conservation == [][TotalBalance' = TotalBalance]_vars

\* C2: under any interleaving of transfers, no committed balance is negative,
\* and the balance a transfer read (and computes its write from) is still the
\* committed balance of that row for as long as the transfer runs.
C2_NoNegativeNoLostUpdate ==
    /\ \A id \in Ids : table[id].balance >= 0
    /\ \A c \in Clients :
        /\ pc[c] \in {"lockTo", "writeFrom", "writeTo"}
               => FromRow(c) # 0 /\ table[FromRow(c)].balance = fromBalance[c]
        /\ pc[c] \in {"writeFrom", "writeTo"}
               => ToRow(c) # 0 /\ table[ToRow(c)].balance = toBalance[c]
        /\ \A id \in DOMAIN writes[c] :
               /\ id = FromRow(c) =>
                      writes[c][id] = FloatSub(table[id].balance, req[c].amount)
               /\ id = ToRow(c) =>
                      writes[c][id] = FloatAdd(table[id].balance, req[c].amount)

\* Two transfers share an account: one has read and locked it and is about to
\* write, the other waits for that row.
C2_Witness ==
    \E c1 \in Clients, c2 \in Clients :
        /\ c1 # c2
        /\ pc[c1] \in {"writeFrom", "writeTo"}
        /\ \E id \in Ids : Waiting(c2, id) /\ lock[id] = c1

\* C3: whenever a step of a transfer changes the committed table, it is the
\* transfer's commit and it applies the debit of the source and the credit of
\* the destination together; any other step of a transfer (a failed write, a
\* rollback, a failed commit) leaves the committed table as it was.
C3_Atomicity ==
    [][\A c \in Clients :
         (req[c].kind = "transfer" /\ pc'[c] # pc[c] /\ table' # table)
            => /\ pc[c] = "defer"
               /\ txEnd'[c] = "commit"
               /\ FromRow(c) # 0 /\ ToRow(c) # 0
               /\ table' = [table EXCEPT
                     ![FromRow(c)].balance = FloatSub(fromBalance[c], req[c].amount),
                     ![ToRow(c)].balance = FloatAdd(toBalance[c], req[c].amount)]]_vars

\* The second write of a transfer has failed after the first one was made.
C3_Witness ==
    \E c \in Clients :
        /\ pc[c] = "defer"
        /\ err[c] = "db"
        /\ DOMAIN writes[c] = {FromRow(c)}

\* C4: a transfer whose amount exceeds the balance read from the source row
\* returns the insufficient-funds error, is answered as a failure, and no
\* step of it changes a committed balance or leaves a write pending.
C4_InsufficientFunds ==
    [][\A c \in Clients :
         /\ ( /\ pc[c] = "lockFrom" /\ pc'[c] # "lockFrom"
              /\ FromRow(c) # 0
              /\ err'[c] = "nil"
              /\ req[c].amount > table[FromRow(c)].balance )
            => /\ ret'[c] = "insufficient funds"
               /\ pc'[c] = "defer"
               /\ writes'[c] = NoWrites
               /\ table' = table
         /\ ( /\ pc[c] = "defer" /\ pc'[c] = "done"
              /\ ret[c] = "insufficient funds" )
            => /\ table' = table
               /\ resp'[c] \notin {0, 200}]_vars

\* A transfer has just found its source's balance below the amount.
C4_Witness ==
    \E c \in Clients :
        /\ pc[c] = "defer"
        /\ ret[c] = "insufficient funds"
        /\ req[c].amount > table[FromRow(c)].balance

\* C5: no two transfers ever each hold one row's lock while waiting for the
\* row the other holds.
C5_NoCircularWait ==
    \A c1 \in Clients, c2 \in Clients, a \in Ids, b \in Ids :
        ~ ( /\ c1 # c2
            /\ lock[a] = c1 /\ Waiting(c1, b)
            /\ lock[b] = c2 /\ Waiting(c2, a) )

\* C10: a transfer that returned an error after its transaction began ended
\* the transaction with a rollback; a commit is issued only when it returns
\* success.
C10_ErrorsRollBack ==
    \A c \in Clients :
        (pc[c] = "done" /\ req[c].kind = "transfer" /\ txEnd[c] # "none")
            => /\ ret[c] # "nil" => txEnd[c] = "rollback"
               /\ txEnd[c] \in {"commit", "commit failed"} => ret[c] = "nil"

\* C6: a delete call that finds no account with its id is answered NotFound
\* (the Store returns id 0 and no error, the handler answers 404) and changes
\* no row; a delete call that finds the row removes it and returns its id, so
\* that the next delete of the same id is answered NotFound.
C6_DeleteNotFound ==
    [][\A c \in Clients :
         /\ ( /\ pc[c] = "idle" /\ pc'[c] # "idle"
              /\ req'[c].kind = "delete"
              /\ ~RowExists(req'[c].id)
              /\ ret'[c] = "nil" )
            => /\ pc'[c] = "done"
               /\ retId'[c] = 0
               /\ resp'[c] = 404
               /\ table' = table
         /\ ( /\ pc[c] = "delExec" /\ pc'[c] # "delExec"
              /\ RowExists(req[c].id)
              /\ ret'[c] = "nil" )
            => /\ ~table'[req[c].id].present
               /\ \A id \in Ids \ {req[c].id} : table'[id] = table[id]
               /\ retId'[c] = req[c].id
               /\ resp'[c] = 200]_vars

\* Two deletes of the same id have run one after the other: the first was
\* answered with the id, the second is answered NotFound.
C6_Witness ==
    \E c1 \in Clients, c2 \in Clients :
        /\ c1 # c2
        /\ pc[c1] = "done" /\ req[c1].kind = "delete" /\ resp[c1] = 200
        /\ pc[c2] = "done" /\ req[c2].kind = "delete" /\ resp[c2] = 404
        /\ req[c1].id = req[c2].id
        /\ retId[c1] = req[c1].id
        /\ ~RowExists(req[c1].id)

\* C7: a balance update naming a negative balance is answered 400
\* (InvalidArgument), never reaches the Store's statements and changes no
\* row, whatever account and number it names.
C7_NegativeBalanceRejected ==
    [][\A c \in Clients :
         ( /\ pc[c] = "idle" /\ pc'[c] # "idle"
           /\ req'[c].kind = "update"
           /\ req'[c].balance < 0 )
            => /\ pc'[c] = "done"
               /\ resp'[c] = 400
               /\ table' = table]_vars

\* A negative balance was refused for an existing account and its own number.
C7_Witness ==
    \E c \in Clients :
        /\ pc[c] = "done"
        /\ req[c].kind = "update"
        /\ req[c].balance < 0
        /\ UpdateMatches(req[c].id, req[c].number)
        /\ resp[c] = 400

\* C8: the handler answers each Store failure with its own status: a missing
\* source or destination account and a balance update whose number matches no
\* row with 404, insufficient funds with 409 or 400, and 500 only for
\* storage failures.
C8_StatusMapping ==
    \A c \in Clients :
        (pc[c] = "done" /\ req[c].via = "http")
            => /\ (req[c].kind = "transfer" /\ ret[c] = "ErrNoRows") => resp[c] = 404
               /\ (req[c].kind = "update" /\ ret[c] = "no rows updated") => resp[c] = 404
               /\ (req[c].kind = "transfer" /\ ret[c] = "insufficient funds")
                      => resp[c] \in {409, 400}
               /\ resp[c] = 500 => ret[c] = "db"

\* C9: a TransferMoney call on the Store naming the same account twice, or an
\* amount that is not positive, returns an error before a transaction
\* starts, and no step of it changes a balance.
C9_StoreRevalidates ==
    [][\A c \in Clients :
         ( /\ pc'[c] # pc[c]
           /\ req'[c].kind = "transfer"
           /\ req'[c].via = "store"
           /\ (req'[c].fromAccountNo = req'[c].toAccountNo \/ req'[c].amount <= 0) )
            => /\ pc[c] = "idle" => (pc'[c] = "done" /\ ret'[c] # "nil")
               /\ table' = table]_vars

\* C11: a transfer answered 200 (TransferMoney returned no error) is one
\* whose transaction committed: when the commit fails the call returns an
\* error and the handler does not answer 200.
C11_SuccessMeansCommitted ==
    \A c \in Clients :
        (pc[c] = "done" /\ req[c].kind = "transfer" /\ ret[c] = "nil" /\ resp[c] = 200)
            => txEnd[c] = "commit"

====
